---------------------------- MODULE Spec2Model ----------------------------
(***************************************************************************)
(* Model of cleanup_cache_files.py: a one-pass utility that prunes dated   *)
(* cache/report files.  A Python str is modelled as the sequence of its    *)
(* Unicode code points (<<114, 46, 106>> is "r.j"), so that                *)
(* regular-expression matching, lowercasing and substring tests are        *)
(* computed character by character.  A date is a triple                    *)
(* <<year, month, day>>; None is the empty tuple.                          *)
(***************************************************************************)
EXTENDS Integers, Sequences, FiniteSets, TLC

None == <<>>

(* ------------------------ Unicode character data ------------------------ *)

\* The tables of the Unicode database of the interpreter (version 14.0):
\* DecimalZeros holds the digit zero of every run of ten decimal digits
\* (category Nd); a row <<first, last, step, delta>> of LowerRuns says that
\* the code points first, first + step, ..., last lower to themselves plus
\* delta; CasedRanges and CaseIgnorableRanges are rows <<first, last>> of
\* the code points that are cased (and not case-ignorable) and
\* case-ignorable, which decide how a capital sigma lowers.
DecimalZeros ==
    << 48, 1632, 1776, 1984, 2406, 2534, 2662, 2790,
       2918, 3046, 3174, 3302, 3430, 3558, 3664, 3792,
       3872, 4160, 4240, 6112, 6160, 6470, 6608, 6784,
       6800, 6992, 7088, 7232, 7248, 42528, 43216, 43264,
       43472, 43504, 43600, 44016, 65296, 66720, 68912, 69734,
       69872, 69942, 70096, 70384, 70736, 70864, 71248, 71360,
       71472, 71904, 72016, 72784, 73040, 73120, 92768, 92864,
       93008, 120782, 120792, 120802, 120812, 120822, 123200, 123632,
       125264, 130032 >>

LowerRuns ==
    << <<65, 90, 1, 32>>, <<192, 214, 1, 32>>, <<216, 222, 1, 32>>,
       <<256, 302, 2, 1>>, <<306, 310, 2, 1>>, <<313, 327, 2, 1>>,
       <<330, 374, 2, 1>>, <<376, 376, 1, -121>>, <<377, 381, 2, 1>>,
       <<385, 385, 1, 210>>, <<386, 388, 2, 1>>, <<390, 390, 1, 206>>,
       <<391, 391, 1, 1>>, <<393, 394, 1, 205>>, <<395, 395, 1, 1>>,
       <<398, 398, 1, 79>>, <<399, 399, 1, 202>>, <<400, 400, 1, 203>>,
       <<401, 401, 1, 1>>, <<403, 403, 1, 205>>, <<404, 404, 1, 207>>,
       <<406, 406, 1, 211>>, <<407, 407, 1, 209>>, <<408, 408, 1, 1>>,
       <<412, 412, 1, 211>>, <<413, 413, 1, 213>>, <<415, 415, 1, 214>>,
       <<416, 420, 2, 1>>, <<422, 422, 1, 218>>, <<423, 423, 1, 1>>,
       <<425, 425, 1, 218>>, <<428, 428, 1, 1>>, <<430, 430, 1, 218>>,
       <<431, 431, 1, 1>>, <<433, 434, 1, 217>>, <<435, 437, 2, 1>>,
       <<439, 439, 1, 219>>, <<440, 440, 1, 1>>, <<444, 444, 1, 1>>,
       <<452, 452, 1, 2>>, <<453, 453, 1, 1>>, <<455, 455, 1, 2>>,
       <<456, 456, 1, 1>>, <<458, 458, 1, 2>>, <<459, 475, 2, 1>>,
       <<478, 494, 2, 1>>, <<497, 497, 1, 2>>, <<498, 500, 2, 1>>,
       <<502, 502, 1, -97>>, <<503, 503, 1, -56>>, <<504, 542, 2, 1>>,
       <<544, 544, 1, -130>>, <<546, 562, 2, 1>>, <<570, 570, 1, 10795>>,
       <<571, 571, 1, 1>>, <<573, 573, 1, -163>>, <<574, 574, 1, 10792>>,
       <<577, 577, 1, 1>>, <<579, 579, 1, -195>>, <<580, 580, 1, 69>>,
       <<581, 581, 1, 71>>, <<582, 590, 2, 1>>, <<880, 882, 2, 1>>,
       <<886, 886, 1, 1>>, <<895, 895, 1, 116>>, <<902, 902, 1, 38>>,
       <<904, 906, 1, 37>>, <<908, 908, 1, 64>>, <<910, 911, 1, 63>>,
       <<913, 929, 1, 32>>, <<931, 939, 1, 32>>, <<975, 975, 1, 8>>,
       <<984, 1006, 2, 1>>, <<1012, 1012, 1, -60>>, <<1015, 1015, 1, 1>>,
       <<1017, 1017, 1, -7>>, <<1018, 1018, 1, 1>>, <<1021, 1023, 1, -130>>,
       <<1024, 1039, 1, 80>>, <<1040, 1071, 1, 32>>, <<1120, 1152, 2, 1>>,
       <<1162, 1214, 2, 1>>, <<1216, 1216, 1, 15>>, <<1217, 1229, 2, 1>>,
       <<1232, 1326, 2, 1>>, <<1329, 1366, 1, 48>>, <<4256, 4293, 1, 7264>>,
       <<4295, 4295, 1, 7264>>, <<4301, 4301, 1, 7264>>, <<5024, 5103, 1, 38864>>,
       <<5104, 5109, 1, 8>>, <<7312, 7354, 1, -3008>>, <<7357, 7359, 1, -3008>>,
       <<7680, 7828, 2, 1>>, <<7838, 7838, 1, -7615>>, <<7840, 7934, 2, 1>>,
       <<7944, 7951, 1, -8>>, <<7960, 7965, 1, -8>>, <<7976, 7983, 1, -8>>,
       <<7992, 7999, 1, -8>>, <<8008, 8013, 1, -8>>, <<8025, 8031, 2, -8>>,
       <<8040, 8047, 1, -8>>, <<8072, 8079, 1, -8>>, <<8088, 8095, 1, -8>>,
       <<8104, 8111, 1, -8>>, <<8120, 8121, 1, -8>>, <<8122, 8123, 1, -74>>,
       <<8124, 8124, 1, -9>>, <<8136, 8139, 1, -86>>, <<8140, 8140, 1, -9>>,
       <<8152, 8153, 1, -8>>, <<8154, 8155, 1, -100>>, <<8168, 8169, 1, -8>>,
       <<8170, 8171, 1, -112>>, <<8172, 8172, 1, -7>>, <<8184, 8185, 1, -128>>,
       <<8186, 8187, 1, -126>>, <<8188, 8188, 1, -9>>, <<8486, 8486, 1, -7517>>,
       <<8490, 8490, 1, -8383>>, <<8491, 8491, 1, -8262>>, <<8498, 8498, 1, 28>>,
       <<8544, 8559, 1, 16>>, <<8579, 8579, 1, 1>>, <<9398, 9423, 1, 26>>,
       <<11264, 11311, 1, 48>>, <<11360, 11360, 1, 1>>, <<11362, 11362, 1, -10743>>,
       <<11363, 11363, 1, -3814>>, <<11364, 11364, 1, -10727>>, <<11367, 11371, 2, 1>>,
       <<11373, 11373, 1, -10780>>, <<11374, 11374, 1, -10749>>, <<11375, 11375, 1, -10783>>,
       <<11376, 11376, 1, -10782>>, <<11378, 11378, 1, 1>>, <<11381, 11381, 1, 1>>,
       <<11390, 11391, 1, -10815>>, <<11392, 11490, 2, 1>>, <<11499, 11501, 2, 1>>,
       <<11506, 11506, 1, 1>>, <<42560, 42604, 2, 1>>, <<42624, 42650, 2, 1>>,
       <<42786, 42798, 2, 1>>, <<42802, 42862, 2, 1>>, <<42873, 42875, 2, 1>>,
       <<42877, 42877, 1, -35332>>, <<42878, 42886, 2, 1>>, <<42891, 42891, 1, 1>>,
       <<42893, 42893, 1, -42280>>, <<42896, 42898, 2, 1>>, <<42902, 42920, 2, 1>>,
       <<42922, 42922, 1, -42308>>, <<42923, 42923, 1, -42319>>, <<42924, 42924, 1, -42315>>,
       <<42925, 42925, 1, -42305>>, <<42926, 42926, 1, -42308>>, <<42928, 42928, 1, -42258>>,
       <<42929, 42929, 1, -42282>>, <<42930, 42930, 1, -42261>>, <<42931, 42931, 1, 928>>,
       <<42932, 42946, 2, 1>>, <<42948, 42948, 1, -48>>, <<42949, 42949, 1, -42307>>,
       <<42950, 42950, 1, -35384>>, <<42951, 42953, 2, 1>>, <<42960, 42960, 1, 1>>,
       <<42966, 42968, 2, 1>>, <<42997, 42997, 1, 1>>, <<65313, 65338, 1, 32>>,
       <<66560, 66599, 1, 40>>, <<66736, 66771, 1, 40>>, <<66928, 66964, 2, 39>>,
       <<66929, 66938, 1, 39>>, <<66941, 66954, 1, 39>>, <<66957, 66962, 1, 39>>,
       <<66965, 66965, 1, 39>>, <<68736, 68786, 1, 64>>, <<71840, 71871, 1, 32>>,
       <<93760, 93791, 1, 32>>, <<125184, 125217, 1, 34>> >>

CasedRanges ==
    << <<65, 90>>, <<97, 122>>, <<170, 170>>, <<181, 181>>, <<186, 186>>,
       <<192, 214>>, <<216, 246>>, <<248, 442>>, <<444, 447>>, <<452, 659>>,
       <<661, 687>>, <<880, 883>>, <<886, 887>>, <<891, 893>>, <<895, 895>>,
       <<902, 902>>, <<904, 906>>, <<908, 908>>, <<910, 929>>, <<931, 1013>>,
       <<1015, 1153>>, <<1162, 1327>>, <<1329, 1366>>, <<1376, 1416>>, <<4256, 4293>>,
       <<4295, 4295>>, <<4301, 4301>>, <<4304, 4346>>, <<4349, 4351>>, <<5024, 5109>>,
       <<5112, 5117>>, <<7296, 7304>>, <<7312, 7354>>, <<7357, 7359>>, <<7424, 7467>>,
       <<7531, 7543>>, <<7545, 7578>>, <<7680, 7957>>, <<7960, 7965>>, <<7968, 8005>>,
       <<8008, 8013>>, <<8016, 8023>>, <<8025, 8025>>, <<8027, 8027>>, <<8029, 8029>>,
       <<8031, 8061>>, <<8064, 8116>>, <<8118, 8124>>, <<8126, 8126>>, <<8130, 8132>>,
       <<8134, 8140>>, <<8144, 8147>>, <<8150, 8155>>, <<8160, 8172>>, <<8178, 8180>>,
       <<8182, 8188>>, <<8450, 8450>>, <<8455, 8455>>, <<8458, 8467>>, <<8469, 8469>>,
       <<8473, 8477>>, <<8484, 8484>>, <<8486, 8486>>, <<8488, 8488>>, <<8490, 8493>>,
       <<8495, 8500>>, <<8505, 8505>>, <<8508, 8511>>, <<8517, 8521>>, <<8526, 8526>>,
       <<8544, 8575>>, <<8579, 8580>>, <<9398, 9449>>, <<11264, 11387>>, <<11390, 11492>>,
       <<11499, 11502>>, <<11506, 11507>>, <<11520, 11557>>, <<11559, 11559>>, <<11565, 11565>>,
       <<42560, 42605>>, <<42624, 42651>>, <<42786, 42863>>, <<42865, 42887>>, <<42891, 42894>>,
       <<42896, 42954>>, <<42960, 42961>>, <<42963, 42963>>, <<42965, 42969>>, <<42997, 42998>>,
       <<43002, 43002>>, <<43824, 43866>>, <<43872, 43880>>, <<43888, 43967>>, <<64256, 64262>>,
       <<64275, 64279>>, <<65313, 65338>>, <<65345, 65370>>, <<66560, 66639>>, <<66736, 66771>>,
       <<66776, 66811>>, <<66928, 66938>>, <<66940, 66954>>, <<66956, 66962>>, <<66964, 66965>>,
       <<66967, 66977>>, <<66979, 66993>>, <<66995, 67001>>, <<67003, 67004>>, <<68736, 68786>>,
       <<68800, 68850>>, <<71840, 71903>>, <<93760, 93823>>, <<119808, 119892>>, <<119894, 119964>>,
       <<119966, 119967>>, <<119970, 119970>>, <<119973, 119974>>, <<119977, 119980>>, <<119982, 119993>>,
       <<119995, 119995>>, <<119997, 120003>>, <<120005, 120069>>, <<120071, 120074>>, <<120077, 120084>>,
       <<120086, 120092>>, <<120094, 120121>>, <<120123, 120126>>, <<120128, 120132>>, <<120134, 120134>>,
       <<120138, 120144>>, <<120146, 120485>>, <<120488, 120512>>, <<120514, 120538>>, <<120540, 120570>>,
       <<120572, 120596>>, <<120598, 120628>>, <<120630, 120654>>, <<120656, 120686>>, <<120688, 120712>>,
       <<120714, 120744>>, <<120746, 120770>>, <<120772, 120779>>, <<122624, 122633>>, <<122635, 122654>>,
       <<125184, 125251>>, <<127280, 127305>>, <<127312, 127337>>, <<127344, 127369>> >>

CaseIgnorableRanges ==
    << <<39, 39>>, <<46, 46>>, <<58, 58>>, <<94, 94>>, <<96, 96>>,
       <<168, 168>>, <<173, 173>>, <<175, 175>>, <<180, 180>>, <<183, 184>>,
       <<688, 879>>, <<884, 885>>, <<890, 890>>, <<900, 901>>, <<903, 903>>,
       <<1155, 1161>>, <<1369, 1369>>, <<1375, 1375>>, <<1425, 1469>>, <<1471, 1471>>,
       <<1473, 1474>>, <<1476, 1477>>, <<1479, 1479>>, <<1524, 1524>>, <<1536, 1541>>,
       <<1552, 1562>>, <<1564, 1564>>, <<1600, 1600>>, <<1611, 1631>>, <<1648, 1648>>,
       <<1750, 1757>>, <<1759, 1768>>, <<1770, 1773>>, <<1807, 1807>>, <<1809, 1809>>,
       <<1840, 1866>>, <<1958, 1968>>, <<2027, 2037>>, <<2042, 2042>>, <<2045, 2045>>,
       <<2070, 2093>>, <<2137, 2139>>, <<2184, 2184>>, <<2192, 2193>>, <<2200, 2207>>,
       <<2249, 2306>>, <<2362, 2362>>, <<2364, 2364>>, <<2369, 2376>>, <<2381, 2381>>,
       <<2385, 2391>>, <<2402, 2403>>, <<2417, 2417>>, <<2433, 2433>>, <<2492, 2492>>,
       <<2497, 2500>>, <<2509, 2509>>, <<2530, 2531>>, <<2558, 2558>>, <<2561, 2562>>,
       <<2620, 2620>>, <<2625, 2626>>, <<2631, 2632>>, <<2635, 2637>>, <<2641, 2641>>,
       <<2672, 2673>>, <<2677, 2677>>, <<2689, 2690>>, <<2748, 2748>>, <<2753, 2757>>,
       <<2759, 2760>>, <<2765, 2765>>, <<2786, 2787>>, <<2810, 2815>>, <<2817, 2817>>,
       <<2876, 2876>>, <<2879, 2879>>, <<2881, 2884>>, <<2893, 2893>>, <<2901, 2902>>,
       <<2914, 2915>>, <<2946, 2946>>, <<3008, 3008>>, <<3021, 3021>>, <<3072, 3072>>,
       <<3076, 3076>>, <<3132, 3132>>, <<3134, 3136>>, <<3142, 3144>>, <<3146, 3149>>,
       <<3157, 3158>>, <<3170, 3171>>, <<3201, 3201>>, <<3260, 3260>>, <<3263, 3263>>,
       <<3270, 3270>>, <<3276, 3277>>, <<3298, 3299>>, <<3328, 3329>>, <<3387, 3388>>,
       <<3393, 3396>>, <<3405, 3405>>, <<3426, 3427>>, <<3457, 3457>>, <<3530, 3530>>,
       <<3538, 3540>>, <<3542, 3542>>, <<3633, 3633>>, <<3636, 3642>>, <<3654, 3662>>,
       <<3761, 3761>>, <<3764, 3772>>, <<3782, 3782>>, <<3784, 3789>>, <<3864, 3865>>,
       <<3893, 3893>>, <<3895, 3895>>, <<3897, 3897>>, <<3953, 3966>>, <<3968, 3972>>,
       <<3974, 3975>>, <<3981, 3991>>, <<3993, 4028>>, <<4038, 4038>>, <<4141, 4144>>,
       <<4146, 4151>>, <<4153, 4154>>, <<4157, 4158>>, <<4184, 4185>>, <<4190, 4192>>,
       <<4209, 4212>>, <<4226, 4226>>, <<4229, 4230>>, <<4237, 4237>>, <<4253, 4253>>,
       <<4348, 4348>>, <<4957, 4959>>, <<5906, 5908>>, <<5938, 5939>>, <<5970, 5971>>,
       <<6002, 6003>>, <<6068, 6069>>, <<6071, 6077>>, <<6086, 6086>>, <<6089, 6099>>,
       <<6103, 6103>>, <<6109, 6109>>, <<6155, 6159>>, <<6211, 6211>>, <<6277, 6278>>,
       <<6313, 6313>>, <<6432, 6434>>, <<6439, 6440>>, <<6450, 6450>>, <<6457, 6459>>,
       <<6679, 6680>>, <<6683, 6683>>, <<6742, 6742>>, <<6744, 6750>>, <<6752, 6752>>,
       <<6754, 6754>>, <<6757, 6764>>, <<6771, 6780>>, <<6783, 6783>>, <<6823, 6823>>,
       <<6832, 6862>>, <<6912, 6915>>, <<6964, 6964>>, <<6966, 6970>>, <<6972, 6972>>,
       <<6978, 6978>>, <<7019, 7027>>, <<7040, 7041>>, <<7074, 7077>>, <<7080, 7081>>,
       <<7083, 7085>>, <<7142, 7142>>, <<7144, 7145>>, <<7149, 7149>>, <<7151, 7153>>,
       <<7212, 7219>>, <<7222, 7223>>, <<7288, 7293>>, <<7376, 7378>>, <<7380, 7392>>,
       <<7394, 7400>>, <<7405, 7405>>, <<7412, 7412>>, <<7416, 7417>>, <<7468, 7530>>,
       <<7544, 7544>>, <<7579, 7679>>, <<8125, 8125>>, <<8127, 8129>>, <<8141, 8143>>,
       <<8157, 8159>>, <<8173, 8175>>, <<8189, 8190>>, <<8203, 8207>>, <<8216, 8217>>,
       <<8228, 8228>>, <<8231, 8231>>, <<8234, 8238>>, <<8288, 8292>>, <<8294, 8303>>,
       <<8305, 8305>>, <<8319, 8319>>, <<8336, 8348>>, <<8400, 8432>>, <<11388, 11389>>,
       <<11503, 11505>>, <<11631, 11631>>, <<11647, 11647>>, <<11744, 11775>>, <<11823, 11823>>,
       <<12293, 12293>>, <<12330, 12333>>, <<12337, 12341>>, <<12347, 12347>>, <<12441, 12446>>,
       <<12540, 12542>>, <<40981, 40981>>, <<42232, 42237>>, <<42508, 42508>>, <<42607, 42610>>,
       <<42612, 42621>>, <<42623, 42623>>, <<42652, 42655>>, <<42736, 42737>>, <<42752, 42785>>,
       <<42864, 42864>>, <<42888, 42890>>, <<42994, 42996>>, <<43000, 43001>>, <<43010, 43010>>,
       <<43014, 43014>>, <<43019, 43019>>, <<43045, 43046>>, <<43052, 43052>>, <<43204, 43205>>,
       <<43232, 43249>>, <<43263, 43263>>, <<43302, 43309>>, <<43335, 43345>>, <<43392, 43394>>,
       <<43443, 43443>>, <<43446, 43449>>, <<43452, 43453>>, <<43471, 43471>>, <<43493, 43494>>,
       <<43561, 43566>>, <<43569, 43570>>, <<43573, 43574>>, <<43587, 43587>>, <<43596, 43596>>,
       <<43632, 43632>>, <<43644, 43644>>, <<43696, 43696>>, <<43698, 43700>>, <<43703, 43704>>,
       <<43710, 43711>>, <<43713, 43713>>, <<43741, 43741>>, <<43756, 43757>>, <<43763, 43764>>,
       <<43766, 43766>>, <<43867, 43871>>, <<43881, 43883>>, <<44005, 44005>>, <<44008, 44008>>,
       <<44013, 44013>>, <<64286, 64286>>, <<64434, 64450>>, <<65024, 65039>>, <<65043, 65043>>,
       <<65056, 65071>>, <<65106, 65106>>, <<65109, 65109>>, <<65279, 65279>>, <<65287, 65287>>,
       <<65294, 65294>>, <<65306, 65306>>, <<65342, 65342>>, <<65344, 65344>>, <<65392, 65392>>,
       <<65438, 65439>>, <<65507, 65507>>, <<65529, 65531>>, <<66045, 66045>>, <<66272, 66272>>,
       <<66422, 66426>>, <<67456, 67461>>, <<67463, 67504>>, <<67506, 67514>>, <<68097, 68099>>,
       <<68101, 68102>>, <<68108, 68111>>, <<68152, 68154>>, <<68159, 68159>>, <<68325, 68326>>,
       <<68900, 68903>>, <<69291, 69292>>, <<69446, 69456>>, <<69506, 69509>>, <<69633, 69633>>,
       <<69688, 69702>>, <<69744, 69744>>, <<69747, 69748>>, <<69759, 69761>>, <<69811, 69814>>,
       <<69817, 69818>>, <<69821, 69821>>, <<69826, 69826>>, <<69837, 69837>>, <<69888, 69890>>,
       <<69927, 69931>>, <<69933, 69940>>, <<70003, 70003>>, <<70016, 70017>>, <<70070, 70078>>,
       <<70089, 70092>>, <<70095, 70095>>, <<70191, 70193>>, <<70196, 70196>>, <<70198, 70199>>,
       <<70206, 70206>>, <<70367, 70367>>, <<70371, 70378>>, <<70400, 70401>>, <<70459, 70460>>,
       <<70464, 70464>>, <<70502, 70508>>, <<70512, 70516>>, <<70712, 70719>>, <<70722, 70724>>,
       <<70726, 70726>>, <<70750, 70750>>, <<70835, 70840>>, <<70842, 70842>>, <<70847, 70848>>,
       <<70850, 70851>>, <<71090, 71093>>, <<71100, 71101>>, <<71103, 71104>>, <<71132, 71133>>,
       <<71219, 71226>>, <<71229, 71229>>, <<71231, 71232>>, <<71339, 71339>>, <<71341, 71341>>,
       <<71344, 71349>>, <<71351, 71351>>, <<71453, 71455>>, <<71458, 71461>>, <<71463, 71467>>,
       <<71727, 71735>>, <<71737, 71738>>, <<71995, 71996>>, <<71998, 71998>>, <<72003, 72003>>,
       <<72148, 72151>>, <<72154, 72155>>, <<72160, 72160>>, <<72193, 72202>>, <<72243, 72248>>,
       <<72251, 72254>>, <<72263, 72263>>, <<72273, 72278>>, <<72281, 72283>>, <<72330, 72342>>,
       <<72344, 72345>>, <<72752, 72758>>, <<72760, 72765>>, <<72767, 72767>>, <<72850, 72871>>,
       <<72874, 72880>>, <<72882, 72883>>, <<72885, 72886>>, <<73009, 73014>>, <<73018, 73018>>,
       <<73020, 73021>>, <<73023, 73029>>, <<73031, 73031>>, <<73104, 73105>>, <<73109, 73109>>,
       <<73111, 73111>>, <<73459, 73460>>, <<78896, 78904>>, <<92912, 92916>>, <<92976, 92982>>,
       <<92992, 92995>>, <<94031, 94031>>, <<94095, 94111>>, <<94176, 94177>>, <<94179, 94180>>,
       <<110576, 110579>>, <<110581, 110587>>, <<110589, 110590>>, <<113821, 113822>>, <<113824, 113827>>,
       <<118528, 118573>>, <<118576, 118598>>, <<119143, 119145>>, <<119155, 119170>>, <<119173, 119179>>,
       <<119210, 119213>>, <<119362, 119364>>, <<121344, 121398>>, <<121403, 121452>>, <<121461, 121461>>,
       <<121476, 121476>>, <<121499, 121503>>, <<121505, 121519>>, <<122880, 122886>>, <<122888, 122904>>,
       <<122907, 122913>>, <<122915, 122916>>, <<122918, 122922>>, <<123184, 123197>>, <<123566, 123566>>,
       <<123628, 123631>>, <<125136, 125142>>, <<125252, 125259>>, <<127995, 127999>>, <<917505, 917505>>,
       <<917536, 917631>>, <<917760, 917999>> >>

(* ----------------------------- str helpers ----------------------------- *)

\* \d on a str pattern: any Unicode decimal digit (the ASCII digits are the
\* first row of DecimalZeros, looked at first)
IsDigit(c) ==
    IF c < 128 THEN 48 <= c /\ c <= 57
    ELSE \E k \in 1..Len(DecimalZeros) :
            DecimalZeros[k] <= c /\ c <= DecimalZeros[k] + 9

\* the value int() gives the decimal digit c
DigitVal(c) ==
    IF c < 128 THEN c - 48
    ELSE c - DecimalZeros[CHOOSE k \in 1..Len(DecimalZeros) :
                             DecimalZeros[k] <= c /\ c <= DecimalZeros[k] + 9]

\* int(part) for a string of decimal digits
RECURSIVE int(_)
int(s) == IF s = <<>> THEN 0
          ELSE 10 * int(SubSeq(s, 1, Len(s) - 1)) + DigitVal(s[Len(s)])

InRanges(ranges, c) ==
    \E k \in 1..Len(ranges) : ranges[k][1] <= c /\ c <= ranges[k][2]

InLowerRun(c, k) ==
    /\ LowerRuns[k][1] <= c /\ c <= LowerRuns[k][2]
    /\ (c - LowerRuns[k][1]) % LowerRuns[k][3] = 0

\* the lowercase of a code point that lowers to one code point
LowerChar(c) ==
    IF c < 128 THEN (IF 65 <= c /\ c <= 90 THEN c + 32 ELSE c)
    ELSE IF \E k \in 1..Len(LowerRuns) : InLowerRun(c, k)
    THEN c + LowerRuns[CHOOSE k \in 1..Len(LowerRuns) : InLowerRun(c, k)][4]
    ELSE c

\* the capital sigma at position i is final: a cased character comes before
\* it and none after it, case-ignorable characters apart
is_final_sigma(s, i) ==
    LET before == {j \in 1..(i - 1) : ~InRanges(CaseIgnorableRanges, s[j])}
        after  == {j \in (i + 1)..Len(s) :
                      ~InRanges(CaseIgnorableRanges, s[j])}
        last   == CHOOSE j \in before : \A k \in before : k <= j
        first  == CHOOSE j \in after : \A k \in after : j <= k
    IN  /\ before # {}
        /\ InRanges(CasedRanges, s[last])
        /\ after # {} => ~InRanges(CasedRanges, s[first])

\* what the character at position i of s lowers to
lower_at(s, i) ==
    IF s[i] = 931 THEN (IF is_final_sigma(s, i) THEN <<962>> ELSE <<963>>)
    ELSE IF s[i] = 304 THEN <<105, 775>>
    ELSE <<LowerChar(s[i])>>

\* what the characters lo to hi of s lower to
RECURSIVE lower_between(_, _, _)
lower_between(s, lo, hi) ==
    IF lo > hi THEN <<>>
    ELSE IF lo = hi THEN lower_at(s, lo)
    ELSE LET mid == (lo + hi) \div 2
         IN  lower_between(s, lo, mid) \o lower_between(s, mid + 1, hi)

\* str.lower()
lower(s) == lower_between(s, 1, Len(s))

\* str.startswith(prefix)
startswith(s, prefix) ==
    /\ Len(prefix) <= Len(s)
    /\ SubSeq(s, 1, Len(prefix)) = prefix

\* the Python test  sub in s  on two strings
contains(s, sub) ==
    \E k \in 0..(Len(s) - Len(sub)) : SubSeq(s, k + 1, k + Len(sub)) = sub

\* the Python test  x in seq  on a tuple of strings
member(x, seq) == \E i \in 1..Len(seq) : seq[i] = x

\* PurePath.suffix: the part of the name from its last dot, when that dot is
\* neither the first nor the last character
rfind_dot(name) ==
    IF \E i \in 1..Len(name) : name[i] = 46
    THEN CHOOSE i \in 1..Len(name) :
            /\ name[i] = 46
            /\ \A j \in (i + 1)..Len(name) : name[j] # 46
    ELSE 0

suffix(name) ==
    LET i == rfind_dot(name)
    IN  IF 1 < i /\ i < Len(name) THEN SubSeq(name, i, Len(name)) ELSE <<>>

(* --------------------------- date arithmetic --------------------------- *)

MINYEAR == 1
MAXYEAR == 9999

is_leap(year) == year % 4 = 0 /\ (year % 100 # 0 \/ year % 400 = 0)

DAYS_IN_MONTH == <<31, 28, 31, 30, 31, 30, 31, 31, 30, 31, 30, 31>>

days_in_month(year, month) ==
    IF month = 2 /\ is_leap(year) THEN 29 ELSE DAYS_IN_MONTH[month]

\* dt.date(year, month, day) raises ValueError exactly when this is false
valid_date(year, month, day) ==
    /\ MINYEAR <= year /\ year <= MAXYEAR
    /\ 1 <= month /\ month <= 12
    /\ 1 <= day /\ day <= days_in_month(year, month)

days_before_year(year) ==
    LET y == year - 1
    IN  y * 365 + (y \div 4) - (y \div 100) + (y \div 400)

RECURSIVE days_before_month(_, _)
days_before_month(year, month) ==
    IF month = 1 THEN 0
    ELSE days_before_month(year, month - 1) + days_in_month(year, month - 1)

\* date.toordinal()
toordinal(d) == days_before_year(d[1]) + days_before_month(d[1], d[2]) + d[3]

\* (today - file_date).days
age_days_of(today_date, file_date) == toordinal(today_date) - toordinal(file_date)

(* --------------------------- DATE_PATTERNS ----------------------------- *)

\* A pattern is its template (0 stands for \d, any other number for the
\* character of that code point; 45 is the hyphen) and the first and last
\* template position of each group.
HyphenPattern ==
    [tmpl   |-> <<0, 0, 0, 0, 45, 0, 0, 45, 0, 0>>,
     groups |-> << <<1, 4>>, <<6, 7>>, <<9, 10>> >>]

CompactPattern ==
    [tmpl   |-> <<0, 0, 0, 0, 0, 0, 0, 0>>,
     groups |-> << <<1, 4>>, <<5, 6>>, <<7, 8>> >>]

DATE_PATTERNS == <<HyphenPattern, CompactPattern>>

\* the pattern matches the text starting at position i (1-based)
MatchAt(pattern, text, i) ==
    /\ i >= 1
    /\ i + Len(pattern.tmpl) - 1 <= Len(text)
    /\ \A k \in 1..Len(pattern.tmpl) :
          IF pattern.tmpl[k] = 0
          THEN IsDigit(text[i + k - 1])
          ELSE text[i + k - 1] = pattern.tmpl[k]

\* pattern.finditer(text) from position i on: the start positions of the
\* non-overlapping matches, scanning left to right
RECURSIVE finditer_from(_, _, _)
finditer_from(pattern, text, i) ==
    LET starts == {j \in i..(Len(text) - Len(pattern.tmpl) + 1) :
                      MatchAt(pattern, text, j)}
        first  == CHOOSE j \in starts : \A k \in starts : j <= k
    IN  IF starts = {} THEN <<>>
        ELSE <<first>> \o finditer_from(pattern, text,
                                        first + Len(pattern.tmpl))

finditer(pattern, text) == finditer_from(pattern, text, 1)

\* match.groups() converted with int(): <<year, month, day>>
groups_int(pattern, text, i) ==
    [g \in 1..3 |-> int(SubSeq(text, i + pattern.groups[g][1] - 1,
                                     i + pattern.groups[g][2] - 1))]

\* the try/except around dt.date(year, month, day)
date_or_none(ymd) == IF valid_date(ymd[1], ymd[2], ymd[3]) THEN ymd ELSE None

RECURSIVE extract_first_match(_, _)
extract_first_match(filename, p) ==
    IF p > Len(DATE_PATTERNS) THEN None
    ELSE LET matches == finditer(DATE_PATTERNS[p], filename)
         IN  IF matches = <<>>
             THEN extract_first_match(filename, p + 1)
             ELSE date_or_none(groups_int(DATE_PATTERNS[p], filename,
                                          matches[1]))

RECURSIVE extract_fall_through(_, _)
extract_fall_through(filename, p) ==
    IF p > Len(DATE_PATTERNS) THEN None
    ELSE LET matches == finditer(DATE_PATTERNS[p], filename)
             found == IF matches = <<>> THEN None
                      ELSE date_or_none(groups_int(DATE_PATTERNS[p], filename,
                                                   matches[Len(matches)]))
         IN  IF found = None
             THEN extract_fall_through(filename, p + 1)
             ELSE found

\* the for loop of extract_date_from_filename, from pattern number p on
RECURSIVE extract_from_pattern(_, _)
extract_from_pattern(filename, p) ==
    IF p > Len(DATE_PATTERNS) THEN None
    ELSE LET matches == finditer(DATE_PATTERNS[p], filename)
         IN  IF matches = <<>>
             THEN extract_from_pattern(filename, p + 1)
             ELSE date_or_none(groups_int(DATE_PATTERNS[p], filename,
                                          matches[Len(matches)]))

extract_date_from_filename(filename) == extract_from_pattern(filename, 1)

(* ------------------------------ the disk ------------------------------- *)

\* A path is the str of its parent and its final component (Path.name); the
\* parent of a path of one component is ".".  An entry of the disk is a
\* regular file or a directory: its name, and the components of the
\* directory that holds it, from the working directory.
File(parent, name) == [parent |-> parent, name |-> name, kind |-> "file"]

Dir(parent, name) == [parent |-> parent, name |-> name, kind |-> "dir"]

\* parent / name
joinpath(parent, name) ==
    IF name = <<>> THEN parent
    ELSE IF parent = <<46>> THEN name
    ELSE IF parent[Len(parent)] = 47 THEN parent \o name
    ELSE parent \o <<47>> \o name

\* str(path)
path_str(path) == joinpath(path.parent, path.name)

\* text[lo..hi].split("/"): the two halves are split apart, and the last
\* piece of the first half goes on in the first piece of the second
RECURSIVE split_between(_, _, _)
split_between(text, lo, hi) ==
    IF \A i \in lo..hi : text[i] # 47 THEN <<SubSeq(text, lo, hi)>>
    ELSE IF lo = hi THEN << <<>>, <<>> >>
    ELSE LET mid   == (lo + hi) \div 2
             left  == split_between(text, lo, mid)
             right == split_between(text, mid + 1, hi)
         IN  SubSeq(left, 1, Len(left) - 1)
                \o << left[Len(left)] \o right[1] >>
                \o SubSeq(right, 2, Len(right))

IsPart(piece) == piece # <<>> /\ piece # <<46>>

\* the components of a path string: empty pieces and "." dropped
parts_of(text) == SelectSeq(split_between(text, 1, Len(text)), IsPart)

\* the number of slashes text starts with
leading_slashes(text) ==
    IF \A i \in 1..Len(text) : text[i] = 47 THEN Len(text)
    ELSE (CHOOSE i \in 1..Len(text) :
             /\ text[i] # 47
             /\ \A j \in 1..(i - 1) : text[j] = 47) - 1

\* the root of a POSIX path: "", "/" or, for exactly two slashes, "//"
root_of(text) ==
    LET n == leading_slashes(text)
    IN  IF n = 0 THEN <<>> ELSE IF n = 2 THEN <<47, 47>> ELSE <<47>>

\* "/".join(parts[lo..hi])
RECURSIVE join_between(_, _, _)
join_between(parts, lo, hi) ==
    IF lo > hi THEN <<>>
    ELSE IF lo = hi THEN parts[lo]
    ELSE LET mid == (lo + hi) \div 2
         IN  join_between(parts, lo, mid) \o <<47>>
                \o join_between(parts, mid + 1, hi)

\* "/".join(parts)
join_parts(parts) == join_between(parts, 1, Len(parts))

\* str(Path(text)): type=Path of --path
Path(text) ==
    LET parts == parts_of(text)
        root  == root_of(text)
    IN  IF parts = <<>> THEN (IF root = <<>> THEN <<46>> ELSE root)
        ELSE root \o join_parts(parts)

CacheDir == <<<<99, 97, 99, 104, 101>>>>

LatestDir == <<<<99, 97, 99, 104, 101>>, <<108, 97, 116, 101, 115, 116>>>>

\* the working directory of the process: the components of its absolute path
WorkDir == <<<<119, 111, 114, 107>>>>

\* the directories below the working directory that exist whatever files
\* they hold
Directories == {<<>>, CacheDir, LatestDir}

\* the place of an entry: its components from the root of the file system
location(entry) == Append(WorkDir \o entry.parent, entry.name)

IsPrefix(a, b) == Len(a) <= Len(b) /\ SubSeq(b, 1, Len(a)) = a

\* the limits of the system: the bytes of one component, and the bytes of a
\* whole path with the byte that ends it
NAME_MAX == 255

PATH_MAX == 4096

\* a surrogate that comes from an undecodable byte (U+DC80 to U+DCFF): the
\* one kind of surrogate that the file system encoding takes back
is_escaped_byte(c) == 56448 <= c /\ c <= 56575

\* a surrogate that the file system encoding refuses (UnicodeEncodeError, a
\* ValueError)
unencodable(c) == 55296 <= c /\ c <= 57343 /\ ~is_escaped_byte(c)

\* the number of bytes of the character c in the file system encoding
\* (UTF-8 with surrogateescape)
encoded_len(c) ==
    IF c < 128 \/ is_escaped_byte(c) THEN 1
    ELSE IF c < 2048 THEN 2
    ELSE IF c < 65536 THEN 3
    ELSE 4

\* len(os.fsencode(text)): the number of the bytes of all characters
byte_len(text) ==
    Cardinality({b \in (1..Len(text)) \X (1..4) :
                    b[2] <= encoded_len(text[b[1]])})

\* text has more than limit bytes (no character has more than four)
longer_than(text, limit) == 4 * Len(text) > limit /\ byte_len(text) > limit

\* there is a directory at loc: the root of the file system, the working
\* directory, one of Directories, a directory entry, or any directory above
\* one of these or above an entry
is_dir_at(disk, loc) ==
    \/ \E d \in Directories : IsPrefix(loc, WorkDir \o d)
    \/ \E e \in disk :
          /\ IsPrefix(loc, location(e))
          /\ e.kind = "file" => loc # location(e)

is_file_at(disk, loc) ==
    \E e \in disk : e.kind = "file" /\ location(e) = loc

\* What the system finds one component further, having found `found`:
\* "dir", "file", "missing", "notdir" (a component follows what is no
\* directory: ENOTDIR) or "toolong" (a component of more than NAME_MAX bytes,
\* looked up in a directory that exists: ENAMETOOLONG), and where.  Nothing is
\* looked up once a component has failed.  The parent of the root of the
\* file system is the root.
step(disk, found, part) ==
    IF found.kind = "file" THEN [kind |-> "notdir", at |-> found.at]
    ELSE IF found.kind # "dir" THEN found
    ELSE IF part = <<46, 46>>
    THEN [kind |-> "dir",
          at   |-> IF found.at = <<>> THEN found.at
                   ELSE SubSeq(found.at, 1, Len(found.at) - 1)]
    ELSE LET child == Append(found.at, part)
         IN  IF longer_than(part, NAME_MAX)
             THEN [kind |-> "toolong", at |-> child]
             ELSE IF is_dir_at(disk, child)
             THEN [kind |-> "dir", at |-> child]
             ELSE IF is_file_at(disk, child)
             THEN [kind |-> "file", at |-> child]
             ELSE [kind |-> "missing", at |-> child]

\* the components lo to hi of parts, one after the other, from found on
RECURSIVE walk(_, _, _, _, _)
walk(disk, parts, lo, hi, found) ==
    IF lo > hi THEN found
    ELSE IF lo = hi THEN step(disk, found, parts[lo])
    ELSE LET mid   == (lo + hi) \div 2
             first == walk(disk, parts, lo, mid, found)
         IN  IF first.kind \in {"dir", "file"}
             THEN walk(disk, parts, mid + 1, hi, first)
             ELSE first

\* stat of a path string: "invalid" when the string cannot be encoded
\* (ValueError), "toolong" when it has PATH_MAX bytes or more (ENAMETOOLONG);
\* otherwise an absolute path is followed from the root of the file system,
\* any other path from the working directory
lookup(disk, text) ==
    IF \E i \in 1..Len(text) : unencodable(text[i])
    THEN [kind |-> "invalid", at |-> <<>>]
    ELSE IF longer_than(text, PATH_MAX - 1)
    THEN [kind |-> "toolong", at |-> <<>>]
    ELSE LET parts == parts_of(text)
         IN  walk(disk, parts, 1, Len(parts),
                  [kind |-> "dir",
                   at   |-> IF root_of(text) # <<>> THEN <<>> ELSE WorkDir])

\* Path.exists(): the value returned, or raised when stat fails with an
\* error that is none of ENOENT, ENOTDIR, EBADF, ELOOP (the string is passed
\* as str(path))
exists(disk, path) ==
    LET found == lookup(disk, path)
    IN  [value  |-> found.kind \in {"dir", "file"},
         raised |-> found.kind = "toolong"]

\* Path.is_file(), likewise
is_file(disk, path) ==
    LET found == lookup(disk, path_str(path))
    IN  [value  |-> found.kind = "file",
         raised |-> found.kind = "toolong"]

\* the entry lies below the directory at loc, at any depth
is_under(loc, entry) ==
    IsPrefix(loc, location(entry)) /\ loc # location(entry)

\* the path, from the directory at loc, of the directory that holds entry
relative_parent(loc, entry) ==
    LET place == location(entry)
        rel   == SubSeq(place, Len(loc) + 1, Len(place) - 1)
    IN  join_parts(rel)

\* the entry of the disk that path names, path naming a regular file
entry_at(disk, path) ==
    CHOOSE e \in disk :
       e.kind = "file" /\ location(e) = lookup(disk, path_str(path)).at

\* Path.unlink(missing_ok): the disk afterwards, and whether the call raised
\* (FileNotFoundError is passed over when missing_ok; IsADirectoryError,
\* NotADirectoryError, ENAMETOOLONG and UnicodeEncodeError are not)
unlink(disk, path, missing_ok) ==
    LET found == lookup(disk, path_str(path))
    IN  IF found.kind = "file"
        THEN [disk |-> disk \ {entry_at(disk, path)}, raised |-> FALSE]
        ELSE IF found.kind = "missing"
             THEN [disk |-> disk, raised |-> ~missing_ok]
             ELSE [disk |-> disk, raised |-> TRUE]

(* ----------------------------- the functions --------------------------- *)

DefaultDays == 5

DefaultExtensions == <<<<46, 106, 115, 111, 110>>>>

DefaultSkipTokens == <<<<108, 97, 116, 101, 115, 116>>>>

\* parse_args: argv holds what the command line gives; --path is converted
\* by Path, and every --skip-token is appended to the default list
parse_args(argv) ==
    [path        |-> Path(argv.path),
     days        |-> argv.days,
     extensions  |-> argv.extensions,
     skip_tokens |-> DefaultSkipTokens \o argv.skip_token,
     dry_run     |-> argv.dry_run]

normalize_ext(ext) ==
    IF startswith(ext, <<46>>) THEN lower(ext) ELSE <<46>> \o lower(ext)

normalize_extensions(exts) == [i \in 1..Len(exts) |-> normalize_ext(exts[i])]

should_skip_case_sensitive(path, skip_tokens) ==
    \E i \in 1..Len(skip_tokens) : contains(path.name, lower(skip_tokens[i]))

should_skip(path, skip_tokens) ==
    LET lowercase_name == lower(path.name)
    IN  \E i \in 1..Len(skip_tokens) :
           contains(lowercase_name, lower(skip_tokens[i]))

suffix_excluded_case_sensitive(file_path, extensions) ==
    ~member(suffix(file_path.name), extensions)

\* file_path.suffix.lower() not in extensions
suffix_excluded(file_path, extensions) ==
    ~member(lower(suffix(file_path.name)), extensions)

\* One turn of the loop of gather_candidates on file_path: the date it is
\* yielded with, or None when the loop continues without yielding.
gather_one(disk, file_path, extensions, skip_tokens) ==
    IF ~is_file(disk, file_path).value THEN None
    ELSE IF suffix_excluded(file_path, extensions) THEN None
    ELSE IF should_skip(file_path, skip_tokens) THEN None
    ELSE extract_date_from_filename(file_path.name)

keep_days_unclamped(days) == days

\* keep_days=max(args.days, 0)
keep_days_of(days) == IF days > 0 THEN days ELSE 0

is_expired_at_boundary(age_days, keep_days) == age_days >= keep_days

\* if age_days > keep_days
is_expired(age_days, keep_days) == age_days > keep_days

remove_always(disk, path, dry_run) == unlink(disk, path, TRUE)

remove_never(disk, path, dry_run) == [disk |-> disk, raised |-> FALSE]

remove_strict(disk, path, dry_run) ==
    IF ~dry_run THEN unlink(disk, path, FALSE)
    ELSE [disk |-> disk, raised |-> FALSE]

\* if not dry_run: path.unlink(missing_ok=True)
remove_if_real(disk, path, dry_run) ==
    IF ~dry_run THEN unlink(disk, path, TRUE)
    ELSE [disk |-> disk, raised |-> FALSE]

(* ------------------------------- inputs -------------------------------- *)

MaxFiles == 2

MaxRuns == 2

MaxDays == 9

Files ==
    { File(CacheDir, <<114, 95, 50, 48, 50, 53, 48, 49, 48, 49, 46, 106, 115, 111, 110>>),                \* r_20250101.json
      File(CacheDir, <<82, 233, 112, 111, 114, 116, 45, 50, 48, 50, 53, 45, 48, 49, 45, 48, 53, 46, 74, 83, 79, 78>>),         \* R, E acute, port-...
      File(CacheDir, <<100, 97, 116, 97, 95, 76, 65, 84, 69, 83, 84, 95, 50, 48, 50, 53, 48, 49, 48, 49, 46, 106, 115, 111, 110>>),      \* data_LATEST_...
      File(LatestDir, <<114, 95, 50, 48, 50, 52, 49, 50, 51, 49, 46, 106, 115, 111, 110>>),               \* r_20241231.json
      File(CacheDir, <<114, 95, 50, 48, 50, 53, 48, 49, 49, 48, 46, 99, 115, 118>>),                 \* r_20250110.csv
      File(CacheDir, <<114, 95, 50, 48, 50, 53, 48, 49, 49, 50, 46, 106, 115, 111, 110>>),                \* r_20250112.json
      File(CacheDir, <<110, 111, 116, 101, 115, 46, 106, 115, 111, 110>>),                     \* notes.json
      Dir(CacheDir, <<50, 48, 50, 53, 45, 48, 49, 45, 48, 49, 46, 106, 115, 111, 110>>) }               \* 2025-01-01.json

\* the orders in which a directory tree can list at most MaxFiles entries
RECURSIVE Listings(_)
Listings(n) ==
    IF n = 0 THEN {<<>>}
    ELSE LET shorter == Listings(n - 1)
         IN  shorter \cup
             {Append(l, e) : l \in {s \in shorter : Len(s) = n - 1},
                             e \in Files}

Range(seq) == {seq[i] : i \in 1..Len(seq)}

IsInjective(seq) == \A i, j \in 1..Len(seq) : seq[i] = seq[j] => i = j

DirOrders == {l \in Listings(MaxFiles) : IsInjective(l)}

DaysSet == {-1, 0, DefaultDays, MaxDays}

\* the default, or  JSON .Csv
ExtensionArgs == {DefaultExtensions, <<<<74, 83, 79, 78>>, <<46, 67, 115, 118>>>>}

\* no --skip-token, or R, capital E acute, PORT
SkipTokenArgs == {<<>>, <<<<82, 201, 80, 79, 82, 84>>>>}

\* a name of one byte more than a component may have
TooLongName == [i \in 1..(NAME_MAX + 1) |-> 97]

\* ./cache/ (the directory), cache/notes.json (a regular file when it is on
\* disk, nothing when it is not) and cache/aaa... (nothing, under a name no
\* entry can have)
PathArgs == {<<46, 47, 99, 97, 99, 104, 101, 47>>, <<99, 97, 99, 104, 101, 47, 110, 111, 116, 101, 115, 46, 106, 115, 111, 110>>, <<99, 97, 99, 104, 101, 47>> \o TooLongName}

ArgvSet ==
    [path : PathArgs, days : DaysSet, extensions : ExtensionArgs,
     skip_token : SkipTokenArgs, dry_run : BOOLEAN]

TodaySet == {<<2025, 1, 10>>}

(* ------------------------------- state --------------------------------- *)

VARIABLES
    pc,            \* "main", "scan", "body", "done" or "error"
    argv,          \* the command line of this invocation
    today,         \* the calendar date the clock gives
    dirorder,      \* the order in which the directory tree lists its entries
    fs,            \* the entries on disk
    fs0,           \* the entries on disk when this invocation started
    cl,            \* the arguments main calls cleanup with
    listing,       \* what root.rglob("*") goes through
    idx,           \* the position of the scan in listing
    file_date,     \* the date of the candidate the scan has yielded
    yielded,       \* the (path, date) pairs gather_candidates has yielded
    deleted,       \* cleanup's counter
    deleted_paths, \* cleanup's list
    out,           \* the lines printed
    vanished,      \* the paths that were gone when cleanup called unlink
    run,           \* the number of this invocation
    prev           \* what the previous invocation printed and returned

vars == <<pc, argv, today, dirorder, fs, fs0, cl, listing, idx, file_date,
          yielded, deleted, deleted_paths, out, vanished, run, prev>>

NoCall == [root |-> <<>>, keep_days |-> 0, extensions |-> <<>>,
           skip_tokens |-> <<>>, dry_run |-> FALSE]

NoRun == [dry_run |-> FALSE, fs0 |-> {}, fs |-> {}, out |-> <<>>,
          deleted |-> 0, deleted_paths |-> <<>>]

FileLine(path, date, age) ==
    [kind |-> "file", path |-> path, date |-> date, age |-> age,
     n |-> 0, dry |-> FALSE]

SummaryLine(root, n, dry) ==
    [kind |-> "summary", path |-> [parent |-> <<>>, name |-> root],
     date |-> None, age |-> 0, n |-> n, dry |-> dry]

MissingLine(root) ==
    [kind |-> "missing", path |-> [parent |-> <<>>, name |-> root],
     date |-> None, age |-> 0, n |-> 0, dry |-> FALSE]

\* root.rglob("*"): the paths of the entries under root, in the directory's
\* order, each as root joined with the path from root to the entry; nothing
\* when root is no directory.  (The directories of Directories are left out:
\* gather_candidates passes over every directory.)
rglob(disk, order, root) ==
    LET found == lookup(disk, root)
        Listed(e) == e \in disk /\ is_under(found.at, e)
        under == SelectSeq(order, Listed)
    IN  IF found.kind # "dir" THEN <<>>
        ELSE [k \in 1..Len(under) |->
                [parent |-> joinpath(root, relative_parent(found.at, under[k])),
                 name   |-> under[k].name]]

Init ==
    /\ pc = "main"
    /\ argv \in ArgvSet
    /\ today \in TodaySet
    /\ dirorder \in DirOrders
    /\ fs = Range(dirorder)
    /\ fs0 = fs
    /\ cl = NoCall
    /\ listing = <<>>
    /\ idx = 1
    /\ file_date = None
    /\ yielded = <<>>
    /\ deleted = 0
    /\ deleted_paths = <<>>
    /\ out = <<>>
    /\ vanished = {}
    /\ run = 1
    /\ prev = NoRun

\* main, up to the call of cleanup and the first lines of cleanup
Main ==
    /\ pc = "main"
    /\ LET args == parse_args(argv)
           found == exists(fs, args.path)
       IN  IF found.raised
           THEN /\ pc' = "error"
                /\ UNCHANGED <<out, cl, listing>>
           ELSE IF ~found.value
           THEN /\ out' = Append(out, MissingLine(args.path))
                /\ pc' = "done"
                /\ UNCHANGED <<cl, listing>>
           ELSE /\ cl' = [root        |-> args.path,
                          keep_days   |-> keep_days_of(args.days),
                          extensions  |-> normalize_extensions(args.extensions),
                          skip_tokens |-> args.skip_tokens,
                          dry_run     |-> args.dry_run]
                /\ listing' = rglob(fs, dirorder, args.path)
                /\ pc' = "scan"
                /\ out' = out
    /\ fs0' = fs
    /\ idx' = 1
    /\ deleted' = 0
    /\ deleted_paths' = <<>>
    /\ UNCHANGED <<argv, today, dirorder, fs, file_date, yielded, vanished,
                   run, prev>>

\* gather_candidates looks at the next path of the traversal
GatherStep ==
    /\ pc = "scan"
    /\ idx <= Len(listing)
    /\ LET file_path == listing[idx]
           extracted_date == gather_one(fs, file_path, cl.extensions,
                                        cl.skip_tokens)
       IN  IF is_file(fs, file_path).raised
           THEN /\ pc' = "error"
                /\ UNCHANGED <<idx, file_date, yielded>>
           ELSE IF extracted_date = None
           THEN /\ idx' = idx + 1
                /\ UNCHANGED <<pc, file_date, yielded>>
           ELSE /\ pc' = "body"
                /\ file_date' = extracted_date
                /\ yielded' = Append(yielded, [path |-> file_path,
                                               date |-> extracted_date])
                /\ idx' = idx
    /\ UNCHANGED <<argv, today, dirorder, fs, fs0, cl, listing, deleted,
                   deleted_paths, out, vanished, run, prev>>

\* the body of the for loop of cleanup, on the candidate just yielded
CleanupBody ==
    /\ pc = "body"
    /\ LET path == listing[idx]
           age_days == age_days_of(today, file_date)
           removal == remove_if_real(fs, path, cl.dry_run)
       IN  IF is_expired(age_days, cl.keep_days)
           THEN /\ out' = Append(out, FileLine(path, file_date, age_days))
                /\ fs' = removal.disk
                /\ vanished' = IF ~cl.dry_run /\ ~is_file(fs, path).value
                               THEN vanished \cup {path}
                               ELSE vanished
                /\ IF removal.raised
                   THEN /\ pc' = "error"
                        /\ UNCHANGED <<deleted, deleted_paths, idx>>
                   ELSE /\ pc' = "scan"
                        /\ deleted' = deleted + 1
                        /\ deleted_paths' = Append(deleted_paths, path)
                        /\ idx' = idx + 1
           ELSE /\ pc' = "scan"
                /\ idx' = idx + 1
                /\ UNCHANGED <<out, fs, deleted, deleted_paths, vanished>>
    /\ file_date' = None
    /\ UNCHANGED <<argv, today, dirorder, fs0, cl, listing, yielded, run, prev>>

\* the traversal is exhausted: the summary line and the return
CleanupFinish ==
    /\ pc = "scan"
    /\ idx > Len(listing)
    /\ out' = Append(out, SummaryLine(cl.root, deleted, cl.dry_run))
    /\ pc' = "done"
    /\ UNCHANGED <<argv, today, dirorder, fs, fs0, cl, listing, idx, file_date,
                   yielded, deleted, deleted_paths, vanished, run, prev>>

\* the script is run again on the same day with the same command line, with
\* or without --dry-run
Reinvoke ==
    /\ pc = "done"
    /\ run < MaxRuns
    /\ prev' = [dry_run |-> argv.dry_run, fs0 |-> fs0, fs |-> fs, out |-> out,
                deleted |-> deleted, deleted_paths |-> deleted_paths]
    /\ \E flag \in BOOLEAN : argv' = [argv EXCEPT !.dry_run = flag]
    /\ run' = run + 1
    /\ pc' = "main"
    /\ cl' = NoCall
    /\ listing' = <<>>
    /\ idx' = 1
    /\ yielded' = <<>>
    /\ deleted' = 0
    /\ deleted_paths' = <<>>
    /\ out' = <<>>
    /\ vanished' = {}
    /\ UNCHANGED <<today, dirorder, fs, fs0, file_date>>

\* another process removes a file while the scan is under way
ExternalRemove ==
    /\ pc \in {"scan", "body"}
    /\ \E e \in fs :
          /\ e.kind = "file"
          /\ fs' = fs \ {e}
    /\ UNCHANGED <<pc, argv, today, dirorder, fs0, cl, listing, idx, file_date,
                   yielded, deleted, deleted_paths, out, vanished, run, prev>>

Program == Main \/ GatherStep \/ CleanupBody \/ CleanupFinish

Next == Program

\* one invocation of the script, alone on the directory
Spec == Init /\ [][Next]_vars

NextRerun == Program \/ Reinvoke

\* the script invoked again and again, alone on the directory
SpecRerun == Init /\ [][NextRerun]_vars

NextEnv == Program \/ ExternalRemove

\* one invocation, with another process removing files during the scan
SpecEnv == Init /\ [][NextEnv]_vars

(* ---------------- one file, with many shapes of file name -------------- *)

MaxSegments == 3

Segments ==
    { <<50, 48, 50, 53, 45, 48, 49, 45, 48, 49>>, <<50, 48, 50, 53, 45, 49, 51, 45, 48, 49>>, <<50, 48, 50, 53, 48, 49, 48, 53>>, <<50, 48, 50, 53, 48, 50, 51, 48>>,
      <<50, 48, 50, 52, 49, 50, 51, 49>>, <<95>>, <<55>>,
      <<1634, 1632, 1634, 1637, 1632, 1633, 1632, 1635>> }                     \* 20250103 in Arabic-Indic digits

RECURSIVE Stems(_)
Stems(n) ==
    IF n = 0 THEN {<<>>}
    ELSE LET shorter == Stems(n - 1)
         IN  shorter \cup {s \o g : s \in shorter, g \in Segments}

NameSet == {stem \o <<46, 106, 115, 111, 110>> : stem \in Stems(MaxSegments)}

InitNames ==
    /\ pc = "main"
    /\ argv \in [path : {<<99, 97, 99, 104, 101, 47, 108, 97, 116, 101, 115, 116, 47, 46, 46>>}, days : {0, DefaultDays},
                 extensions : {DefaultExtensions}, skip_token : {<<>>},
                 dry_run : BOOLEAN]
    /\ today \in TodaySet
    /\ dirorder \in {<<File(CacheDir, name)>> : name \in NameSet}
    /\ fs = Range(dirorder)
    /\ fs0 = fs
    /\ cl = NoCall
    /\ listing = <<>>
    /\ idx = 1
    /\ file_date = None
    /\ yielded = <<>>
    /\ deleted = 0
    /\ deleted_paths = <<>>
    /\ out = <<>>
    /\ vanished = {}
    /\ run = 1
    /\ prev = NoRun

SpecNames == InitNames /\ [][Next]_vars

(* ------------------------- reading the state --------------------------- *)

\* cleanup has been called and has returned
Returned == pc = "done" /\ cl # NoCall

Candidates == Range(yielded)

Age(c) == age_days_of(today, c.date)

DeletedSet == Range(deleted_paths)

IsFileLine(line) == line.kind = "file"

FileLines(lines) == SelectSeq(lines, IsFileLine)

ReportedSet == DeletedSet \cup {line.path : line \in Range(FileLines(out))}

\* the path names the entry e of the disk
Names(path, e) == lookup(fs0, path_str(path)).at = location(e)

\* what --path names on the disk
RootDir == lookup(fs0, Path(argv.path))

UnderRoot(e) == RootDir.kind = "dir" /\ is_under(RootDir.at, e)

\* the entry has been neither removed nor reported nor yielded
Untouched(e) ==
    /\ e \in fs
    /\ \A p \in ReportedSet : ~Names(p, e)
    /\ \A c \in Candidates : ~Names(c.path, e)

\* two strings equal up to letter case
CaseEq(a, b) ==
    /\ Len(a) = Len(b)
    /\ \A i \in 1..Len(a) : LowerChar(a[i]) = LowerChar(b[i])

\* token occurs in name, letter case apart
OccursIn(name, token) ==
    \E k \in 0..(Len(name) - Len(token)) :
       \A j \in 1..Len(token) : LowerChar(name[k + j]) = LowerChar(token[j])

ConfiguredTokens == DefaultSkipTokens \o argv.skip_token

NameHasToken(name) ==
    \E i \in 1..Len(ConfiguredTokens) : OccursIn(name, ConfiguredTokens[i])

Dotted(ext) == IF ext # <<>> /\ ext[1] = 46 THEN ext ELSE <<46>> \o ext

\* the suffix of name is one of the requested extensions, letter case apart
ExtensionRequested(name) ==
    \E i \in 1..Len(argv.extensions) :
       CaseEq(suffix(name), Dotted(argv.extensions[i]))

HasDate(name) == extract_date_from_filename(name) # None

(* ------------------------------- claims -------------------------------- *)

\* C1: in a real run every candidate is removed (and reported) exactly when
\* its age in whole days is strictly greater than the window; a candidate
\* whose age equals the window stays on disk.
C1_StrictlyOlderIsRemoved ==
    (Returned /\ ~cl.dry_run) =>
        \A c \in Candidates :
            /\ (Age(c) > cl.keep_days) <=> (~is_file(fs, c.path).value)
            /\ (Age(c) > cl.keep_days) <=> (c.path \in DeletedSet)

C1_Witness ==
    /\ Returned /\ ~cl.dry_run /\ cl.keep_days = 9
    /\ \E c \in Candidates :
          Age(c) = 9 /\ is_file(fs, c.path).value
    /\ \E c \in Candidates :
          Age(c) > 9 /\ ~is_file(fs, c.path).value

\* C2: a file whose name contains a configured skip token, letter case
\* apart, is never yielded, reported or removed; "latest" is always among
\* the tokens.
C2_SkipTokenProtects ==
    /\ \A e \in fs0 : NameHasToken(e.name) => Untouched(e)
    /\ \A e \in fs0 : OccursIn(e.name, <<108, 97, 116, 101, 115, 116>>) => Untouched(e)

C2_Witness ==
    /\ Returned /\ ~cl.dry_run /\ cl.keep_days = 0
    /\ argv.skip_token = <<>>
    /\ deleted > 0
    /\ File(CacheDir, <<100, 97, 116, 97, 95, 76, 65, 84, 69, 83, 84, 95, 50, 48, 50, 53, 48, 49, 48, 49, 46, 106, 115, 111, 110>>) \in fs

\* C3: what is reported or removed is a regular file under the root whose
\* suffix is a requested extension (letter case apart) and whose name gives
\* a date; directories, other extensions and undated names stay on disk; and
\* an old dated file with a requested extension in another letter case is
\* removed by a real run.
C3_OnlyDatedFilesOfRequestedExtensions ==
    /\ \A p \in ReportedSet :
          /\ \E e \in fs0 : e.kind = "file" /\ UnderRoot(e) /\ Names(p, e)
          /\ ExtensionRequested(p.name)
          /\ HasDate(p.name)
    /\ \A e \in fs0 :
          (e.kind # "file" \/ ~ExtensionRequested(e.name) \/ ~HasDate(e.name))
              => e \in fs
    /\ (Returned /\ ~cl.dry_run) =>
          \A e \in fs0 :
             ( /\ e.kind = "file"
               /\ UnderRoot(e)
               /\ ExtensionRequested(e.name)
               /\ ~NameHasToken(e.name)
               /\ HasDate(e.name)
               /\ age_days_of(today, extract_date_from_filename(e.name))
                     > cl.keep_days )
             => e \notin fs

C3_Witness ==
    /\ Returned /\ ~cl.dry_run
    /\ argv.extensions = DefaultExtensions
    /\ File(CacheDir, <<82, 233, 112, 111, 114, 116, 45, 50, 48, 50, 53, 45, 48, 49, 45, 48, 53, 46, 74, 83, 79, 78>>) \in fs0 \ fs
    /\ Dir(CacheDir, <<50, 48, 50, 53, 45, 48, 49, 45, 48, 49, 46, 106, 115, 111, 110>>) \in fs

\* C4: with --dry-run the disk stays as it was when the run started.
C4_DryRunLeavesDisk == argv.dry_run => fs = fs0

C4_Witness == Returned /\ argv.dry_run /\ deleted > 0 /\ fs = fs0

\* C5: a real run that follows a dry run on the same disk with the same
\* arguments prints the same per-file lines and returns the same count and
\* the same list, and removes exactly the paths the dry run listed.
C5_DryRunIsPreview ==
    ( /\ pc = "done" /\ run > 1
      /\ prev.dry_run /\ ~argv.dry_run
      /\ prev.fs0 = fs0 ) =>
        /\ FileLines(out) = FileLines(prev.out)
        /\ deleted = prev.deleted
        /\ deleted_paths = prev.deleted_paths
        /\ {location(e) : e \in fs0 \ fs}
              = {lookup(fs0, path_str(p)).at : p \in Range(prev.deleted_paths)}

C5_Witness ==
    /\ pc = "done" /\ run > 1
    /\ prev.dry_run /\ ~argv.dry_run
    /\ prev.fs0 = fs0
    /\ prev.deleted > 0
    /\ Len(yielded) > deleted

\* C8: a candidate dated today or later is retained whatever --days is, and
\* with --days below zero the window is zero: the run removes the candidates
\* of age above zero and no other.
C8_NegativeWindowIsZero ==
    /\ \A c \in Candidates :
          Age(c) <= 0 =>
              /\ is_file(fs, c.path).value
              /\ c.path \notin ReportedSet
    /\ (Returned /\ argv.days < 0) =>
          /\ cl.keep_days = 0
          /\ DeletedSet = {c.path : c \in {d \in Candidates : Age(d) > 0}}

C8_Witness ==
    /\ Returned /\ ~cl.dry_run /\ argv.days < 0
    /\ deleted > 0
    /\ \E c \in Candidates :
          Age(c) = 0 /\ is_file(fs, c.path).value

\* --path names nothing on the disk
RootMissing == RootDir.kind \notin {"dir", "file"}

\* C9: when --path names a directory that does not exist main completes
\* without raising and without calling cleanup: no scan, no deletion, the
\* disk unchanged, one line printed.  (It fails for a --path with a
\* component of more than NAME_MAX bytes: exists raises.)
C9_MissingDirectoryIsNoOp ==
    RootMissing =>
        /\ pc \in {"main", "done"}
        /\ pc = "done" => out = <<MissingLine(Path(argv.path))>>
        /\ cl = NoCall
        /\ listing = <<>>
        /\ yielded = <<>>
        /\ deleted = 0
        /\ deleted_paths = <<>>
        /\ fs = fs0

(* ----------------- reading a file name, for C6 and C7 ------------------ *)

HasMatch(pattern, text) == \E i \in 1..Len(text) : MatchAt(pattern, text, i)

\* The starts of the non-overlapping matches among the positions up to k: a
\* position where the pattern matches is taken when no match taken before
\* it reaches it.
RECURSIVE TakenUpTo(_, _, _)
TakenUpTo(pattern, text, k) ==
    IF k = 0 THEN {}
    ELSE LET before == TakenUpTo(pattern, text, k - 1)
         IN  IF /\ MatchAt(pattern, text, k)
                /\ \A j \in before : j + Len(pattern.tmpl) <= k
             THEN before \cup {k}
             ELSE before

SetMax(S) == CHOOSE m \in S : \A n \in S : n <= m

\* the start of the last non-overlapping match (the pattern has a match)
LastTaken(pattern, text) == SetMax(TakenUpTo(pattern, text, Len(text)))

IsCalendarDate(ymd) == valid_date(ymd[1], ymd[2], ymd[3])

\* the first shape, in the order of DATE_PATTERNS, with a match in text
FirstShape(text) ==
    IF HasMatch(HyphenPattern, text) THEN HyphenPattern ELSE CompactPattern

HasShape(text) == HasMatch(HyphenPattern, text) \/ HasMatch(CompactPattern, text)

\* the numbers of the last non-overlapping match of the first shape
LastOfFirstShape(text) ==
    groups_int(FirstShape(text), text, LastTaken(FirstShape(text), text))

\* the positions where a substring of either shape is a calendar date
ValidOccurrences(text) ==
    {i \in 1..Len(text) :
        \E p \in 1..Len(DATE_PATTERNS) :
           /\ MatchAt(DATE_PATTERNS[p], text, i)
           /\ IsCalendarDate(groups_int(DATE_PATTERNS[p], text, i))}

\* the date of the rightmost of them
RightmostDate(text) ==
    LET i == SetMax(ValidOccurrences(text))
        p == CHOOSE q \in 1..Len(DATE_PATTERNS) :
                /\ MatchAt(DATE_PATTERNS[q], text, i)
                /\ IsCalendarDate(groups_int(DATE_PATTERNS[q], text, i))
    IN  groups_int(DATE_PATTERNS[p], text, i)

\* the file passes the filters that come before the date extraction
ReachesExtraction(e) ==
    /\ e.kind = "file"
    /\ UnderRoot(e)
    /\ ExtensionRequested(e.name)
    /\ ~NameHasToken(e.name)

YieldedWith(e, date) ==
    \E c \in Candidates : Names(c.path, e) /\ c.date = date

\* C6 as the specification states it: the date extracted is the date of the
\* rightmost valid YYYY-MM-DD or YYYYMMDD substring of the file name.
C6_RightmostValidSubstring ==
    Returned =>
        \A e \in fs0 :
            (ReachesExtraction(e) /\ ValidOccurrences(e.name) # {})
                => YieldedWith(e, RightmostDate(e.name))

\* C6, amended: the date extracted is the date of the last non-overlapping
\* match of the first shape that matches at all (hyphenated before compact),
\* whenever that match is a calendar date.
C6_LastMatchOfFirstShape ==
    Returned =>
        \A e \in fs0 :
            ( /\ ReachesExtraction(e)
              /\ HasShape(e.name)
              /\ IsCalendarDate(LastOfFirstShape(e.name)) )
                => YieldedWith(e, LastOfFirstShape(e.name))

\* a hyphenated date followed by a different compact date, and a digit run
\* of more than eight digits
C6_Witness ==
    /\ Returned
    /\ \E e \in fs0 :
          /\ ReachesExtraction(e)
          /\ HasMatch(HyphenPattern, e.name)
          /\ HasMatch(CompactPattern, e.name)
          /\ IsCalendarDate(LastOfFirstShape(e.name))
          /\ RightmostDate(e.name) # LastOfFirstShape(e.name)
          /\ YieldedWith(e, LastOfFirstShape(e.name))

\* C7: when the last non-overlapping match of the first shape that matches
\* is not a calendar date, no date is extracted, whatever else the name
\* holds: the file is not a candidate and stays on disk; nothing raises.
C7_InvalidMatchShortCircuits ==
    /\ pc # "error"
    /\ \A e \in fs0 :
          ( /\ e.kind = "file"
            /\ HasShape(e.name)
            /\ ~IsCalendarDate(LastOfFirstShape(e.name)) )
              => Untouched(e)

C7_Witness ==
    /\ Returned /\ ~cl.dry_run /\ cl.keep_days = 0
    /\ \E e \in fs :
          /\ ReachesExtraction(e)
          /\ HasMatch(HyphenPattern, e.name)
          /\ ~IsCalendarDate(LastOfFirstShape(e.name))
          /\ ValidOccurrences(e.name) # {}
          /\ age_days_of(today, RightmostDate(e.name)) > 0

(* ------------------------------ C10 ------------------------------------ *)

\* the candidate just yielded is gone from the disk, in a real run that is
\* about to remove it
VanishedNow ==
    /\ pc = "body" /\ ~cl.dry_run
    /\ ~is_file(fs, listing[idx]).value
    /\ age_days_of(today, file_date) > cl.keep_days

\* the loop body ends by going back to the scan, one path further
BodyGoesOn ==
    (VanishedNow /\ pc' # "body") =>
        /\ pc' = "scan"
        /\ idx' = idx + 1
        /\ fs' = fs
        /\ deleted' = deleted + 1
        /\ deleted_paths' = Append(deleted_paths, listing[idx])

VanishedFileSafe ==
    /\ pc = "error" => cl = NoCall
    /\ vanished \subseteq DeletedSet
    /\ pc = "body" => (idx <= Len(listing) /\ file_date # None)
    /\ Returned =>
          /\ idx = Len(listing) + 1
          /\ out # <<>>
          /\ out[Len(out)] = SummaryLine(cl.root, deleted, cl.dry_run)
          /\ deleted = Len(deleted_paths)
          /\ \A k \in 1..Len(listing) :
                gather_one(fs, listing[k], cl.extensions,
                           cl.skip_tokens) # None
                    => \E c \in Candidates : c.path = listing[k]

\* C10: when a candidate has been removed by another process before
\* cleanup's own unlink, the call raises nothing, the path is counted and the
\* loop goes on with the next path; cleanup, once called, reaches no error,
\* a run that has returned has gone through the whole listing and printed
\* the summary line,
\* and every file that is still a candidate then has been yielded.
C10_VanishedFileTolerated == []VanishedFileSafe /\ [][BodyGoesOn]_vars

\* a candidate vanished before its unlink, and a later one was processed
C10_Witness ==
    /\ Returned /\ ~cl.dry_run
    /\ \E k \in 1..Len(yielded) :
          /\ yielded[k].path \in vanished
          /\ k < Len(yielded)
          /\ yielded[Len(yielded)].path \in DeletedSet \ vanished

=============================================================================
